---- MODULE Spec2Model ----
(***************************************************************************)
(* Fair single round-robin schedules for ranked participants.              *)
(*                                                                         *)
(* The module models four parts of the repository:                         *)
(*   - circle_method                    (src/src/circlemethod.py)          *)
(*   - FairSrrProblem                   (models/problem.py)                *)
(*   - RankingHap                       (models/problem.py)                *)
(*   - MinRankingFairnessModel          (minF.py)                          *)
(* Each part has its own specification over its own group of variables;    *)
(* the variables of the other parts stay at their idle values.             *)
(*                                                                         *)
(* Python lists and strings are sequences; a Python index k is the         *)
(* sequence index k + 1.  Letters are the strings "H" and "A".             *)
(***************************************************************************)
EXTENDS Integers, Sequences, FiniteSets, Bags, TLC

VARIABLES
    cn,         \* circle_method: the argument n
    cpc,        \* circle_method: "start", "loop", "done" or "failed"
    deque,      \* circle_method: the rotating list of the n - 1 circle players
    rounds,     \* circle_method: the list of rounds built so far
    cr,         \* circle_method: the loop variable r
    dn,         \* FairSrrProblem: the argument n_teams
    dgaps,      \* FairSrrProblem: the argument break_gaps, [some, val]; some = FALSE is None
    dpc,        \* FairSrrProblem: "new", "constructed" or "failed"
    dcall,      \* FairSrrProblem: the last pattern(), break_rounds or break_patterns call, [op, arg, val]
    tpc,        \* tight_order_break_patterns: "idle", "running", "exhausted" or "error"
    tidx,       \* tight_order_break_patterns: number of items taken from the zip
    thome,      \* tight_order_break_patterns: the local variable home
    tyield,     \* tight_order_break_patterns: the patterns yielded so far
    hap,        \* RankingHap: the field hap of the object under test
    hres,       \* RankingHap: what its measures returned, [done, fm, dt_num, dt_den, raised, num, den]
    hcompl,     \* RankingHap: the object complement() returned, [some, hap]
    cres,       \* RankingHap: what the measures of the complement returned
    idist,      \* interval_distance: what it returned for the 0/1 list of hap, [done, num, den]
    on,         \* MinRankingFairnessModel: problem.n
    ogaps,      \* MinRankingFairnessModel: problem.break_gaps, [some, val]
    ocat,       \* MinRankingFairnessModel: ranking_hap_set, [some, val]; some = FALSE is None
    obw,        \* MinRankingFairnessModel: bandwidth
    opc,        \* MinRankingFairnessModel: "new", "error", "built", "solving" or "solved"
    omodel,     \* the solver model _build made: [families, objc, home, catc]
    ox,         \* solver: the (i, j, r) with x[i, j, r] = 1
    ob,         \* solver: the (i, p) with b[i, p] = 1
    ornd,       \* solver: the round whose x variables are being fixed
    oz,         \* solver: the value of every z[p, i, j]
    osol,      \* solver: the values of f_min, f_max and the objective, [f_min, f_max, obj]
    ohaps,      \* print_ranking_haps: the ranking_hap string of every player
    ofsum,      \* print_ranking_haps: f_values, [done, raised, num, den]
    sn,         \* SmallestF: the field n
    spc,        \* SmallestF: "new", "built", "searching", "done" or "error"
    scand,      \* solver: the strings its bound leaves to choose from, each [row, target]
    spath,      \* solver: the node of the search, the choice made for teams 0, 1, ...
    sdown,      \* solver: TRUE while the node is being entered, FALSE when it is left
    spool       \* solver: the solution pool

circleVars == <<cn, cpc, deque, rounds, cr>>

domVars == <<dn, dgaps, dpc, dcall, tpc, tidx, thome, tyield>>

hapVars == <<hap, hres, hcompl, cres, idist>>

optVars == <<on, ogaps, ocat, obw, opc, omodel, ox, ob, ornd, oz, osol, ohaps, ofsum>>

searchVars == <<sn, spc, scand, spath, sdown, spool>>

vars == <<circleVars, domVars, hapVars, optVars, searchVars>>

\* What the actions of one part leave alone: the variables of the other parts.
circleOthers == <<domVars, hapVars, optVars, searchVars>>

domOthers == <<circleVars, hapVars, optVars, searchVars>>

hapOthers == <<circleVars, domVars, optVars, searchVars>>

optOthers == <<circleVars, domVars, hapVars, searchVars>>

searchOthers == <<circleVars, domVars, hapVars, optVars>>

(***************************************************************************)
(* Bounds                                                                  *)
(***************************************************************************)
MaxCircleN == 16

\* FairSrrProblem is constructed for n_teams in -1..MaxDomN, with break-gap
\* tuples of up to MaxDomN \div 2 entries drawn from -1..MaxGap.
MaxDomN == 8

MaxGap == 3

\* RankingHap objects hold H/A sequences of up to MaxHapLen letters.
MaxHapLen == 13

\* The catalogs tried for four teams contradict themselves on at most
\* MaxContradictions pairs of players.
MaxContradictions == 1

\* SmallestF is not used.
SearchIdle ==
    /\ sn = 0
    /\ spc = "idle"
    /\ scand = <<>>
    /\ spath = <<>>
    /\ sdown = FALSE
    /\ spool = {}

(***************************************************************************)
(* Generic helpers                                                         *)
(***************************************************************************)
Range(s) == {s[k] : k \in 1..Len(s)}

Reverse(s) == [k \in 1..Len(s) |-> s[Len(s) + 1 - k]]

\* Python's zip(a, b): stops at the shorter argument.
Zip(a, b) ==
    LET len == IF Len(a) <= Len(b) THEN Len(a) ELSE Len(b)
    IN  [k \in 1..len |-> <<a[k], b[k]>>]

\* Python's list(range(m)) for m >= 0.
RangeList(m) == [k \in 1..m |-> k - 1]

(***************************************************************************)
(* FairSrrProblem (src/optimal-f-value-n-6-10-14/models/problem.py)        *)
(***************************************************************************)
Letters == {"H", "A"}

\* other = 'A' if break_type == 'H' else 'H'
Other(break_type) == IF break_type = "H" THEN "A" ELSE "H"

\* Python's s * m for a one-letter string s: empty when m <= 0.
Repeat(letter, m) == [k \in 1..(IF m > 0 THEN m ELSE 0) |-> letter]

\* ''.join(val for pair in zip(a, b) for val in pair)
Interleave(a, b) ==
    LET z == Zip(a, b)
    IN  [k \in 1..(2 * Len(z)) |-> z[(k + 1) \div 2][2 - (k % 2)]]

\* Python's s[:m] for m >= 0.
Prefix(s, m) == SubSeq(s, 1, IF m <= Len(s) THEN m ELSE Len(s))

\* One step of collections.deque.rotate to the right: d.appendleft(d.pop()).
RotateRightOnce(d) == <<d[Len(d)]>> \o SubSeq(d, 1, Len(d) - 1)

\* One step of collections.deque.rotate to the left: d.append(d.popleft()).
RotateLeftOnce(d) == Tail(d) \o <<d[1]>>

\* collections.deque.rotate(k): k steps to the right, to the left when k < 0.
RECURSIVE DequeRotate(_, _)
DequeRotate(d, k) ==
    IF Len(d) = 0 \/ k = 0 THEN d
    ELSE IF k > 0 THEN DequeRotate(RotateRightOnce(d), k - 1)
    ELSE DequeRotate(RotateLeftOnce(d), k + 1)

\* The deque pattern() builds before rotating it.
PatternDeque(n, break_type) ==
    LET other == Other(break_type)
        m == n - 1 - 3
    IN  <<break_type, break_type, other>>
            \o Interleave(Repeat(break_type, m), Repeat(other, m))

\* A rotation by break_round, without the - 1.
PatternRotationNoOffset(break_round) == break_round

\* A rotation by 1 - break_round: the other direction.
PatternRotationReversed(break_round) == 1 - break_round

\* The argument of d.rotate(...) in pattern().
PatternRotation(break_round) == break_round - 1

\* FairSrrProblem.pattern(p) of a problem with n teams, p = (break_round, break_type).
Pattern(n, p) ==
    LET break_round == p[1]
        break_type == p[2]
    IN  Prefix(DequeRotate(PatternDeque(n, break_type), PatternRotation(break_round)),
               n - 1)


\* FairSrrProblem.rounds: range(n - 1).
Rounds(n) == RangeList(n - 1)

\* FairSrrProblem.players: range(n).
Players(n) == RangeList(n)

\* FairSrrProblem.opponents(i): the players other than i, in increasing order.
Opponents(n, i) == SelectSeq(Players(n), LAMBDA q : q # i)

\* itertools.accumulate(gaps[:-1], initial=0)
RECURSIVE Accumulate(_, _)
Accumulate(s, total) ==
    IF Len(s) = 0 THEN <<total>>
    ELSE <<total>> \o Accumulate(Tail(s), total + s[1])

\* FairSrrProblem.break_rounds, as a list.
BreakRounds(n, gaps) ==
    IF ~gaps.some THEN Rounds(n)
    ELSE Accumulate(SubSeq(gaps.val, 1, Len(gaps.val) - 1), 0)

\* FairSrrProblem.break_patterns, as a list: every break round with H, then with A.
BreakPatterns(n, gaps) ==
    LET br == BreakRounds(n, gaps)
    IN  [k \in 1..(2 * Len(br)) |->
            <<br[(k + 1) \div 2], IF k % 2 = 1 THEN "H" ELSE "A">>]

SumSeq(s) ==
    LET RECURSIVE Sum(_)
        Sum(k) == IF k = 0 THEN 0 ELSE s[k] + Sum(k - 1)
    IN  Sum(Len(s))

\* The assertions without the one on the sum of the gaps.
ConstructionAssertsNoSum(n, gaps) ==
    /\ n > 0
    /\ n % 2 = 0
    /\ gaps.some => Len(gaps.val) = n \div 2

\* The assertions of FairSrrProblem.__init__.
ConstructionAsserts(n, gaps) ==
    /\ n > 0
    /\ n % 2 = 0
    /\ gaps.some => /\ Len(gaps.val) = n \div 2
                    /\ SumSeq(gaps.val) = n - 1

NoGaps == [some |-> FALSE, val |-> <<>>]

GapTuples == UNION {[1..k -> (-1)..MaxGap] : k \in 0..(MaxDomN \div 2)}

DomInputGaps == {NoGaps} \cup {[some |-> TRUE, val |-> g] : g \in GapTuples}

NoCall == [op |-> "none", arg |-> <<0, "H">>, val |-> <<>>]

DomIdle ==
    /\ dn = 0
    /\ dgaps = NoGaps
    /\ dpc = "idle"
    /\ dcall = NoCall
    /\ tpc = "idle"
    /\ tidx = 0
    /\ thome = TRUE
    /\ tyield = <<>>


(***************************************************************************)
(* RankingHap (src/optimal-f-value-n-6-10-14/models/problem.py)            *)
(***************************************************************************)
Abs(v) == IF v < 0 THEN -v ELSE v

\* RankingHap.complement(): the hap of the object it returns.
Complement(h) == [k \in 1..Len(h) |-> IF h[k] = "A" THEN "H" ELSE "A"]

\* string = [1 if h == 'H' else 0 for h in self.hap]
Indicator(h) == [k \in 1..Len(h) |-> IF h[k] = "H" THEN 1 ELSE 0]

\* sum(string[i:j]), for 0 <= i <= j <= len(string)
SliceSum(string, i, j) ==
    LET RECURSIVE Sum(_)
        Sum(k) == IF k > j THEN 0 ELSE string[k] + Sum(k + 1)
    IN  Sum(i + 1)

\* The term without abs().
IntervalTermSigned(string, i, j) == 2 * SliceSum(string, i, j) - (j - i)

\* abs(2 * sum(string[i:j]) - (j - i))
IntervalTerm(string, i, j) == Abs(2 * SliceSum(string, i, j) - (j - i))

\* An inner loop that starts at i + 1: intervals of one letter are counted too.
FirstJFromNext(i) == i + 1

\* for j in range(i + 2, n + 1): the first j.
FirstJ(i) == i + 2

\* RankingHap.f_measure_counted_twice()
FMeasureCountedTwice(h) ==
    LET string == Indicator(h)
        n == Len(string)
        RECURSIVE Inner(_, _)
        Inner(i, j) == IF j > n THEN 0 ELSE IntervalTerm(string, i, j) + Inner(i, j + 1)
        RECURSIVE Outer(_)
        Outer(i) == IF i >= n THEN 0 ELSE Inner(i, FirstJ(i)) + Outer(i + 1)
    IN  Outer(0)

\* RankingHap.delta_t() and RankingHap.f_value(), as exact fractions:
\*   delta_t = fm / 2                                       = dt_num / dt_den
\*   f_value = (delta_t - (n-2)**2 / 8) / (1/24 * n * (n-1) * (n-2))
\*           = (12 * fm - 3 * (n-2)**2) / (n * (n-1) * (n-2)) = num / den
\* with n = len(hap) + 1; the division raises ZeroDivisionError when den = 0.
Measures(h) ==
    LET fm == FMeasureCountedTwice(h)
        n == Len(h) + 1
        den == n * (n - 1) * (n - 2)
    IN  [done |-> TRUE, fm |-> fm, dt_num |-> fm, dt_den |-> 2,
         raised |-> (den = 0),
         num |-> 12 * fm - 3 * (n - 2) * (n - 2), den |-> den]

NoMeasures ==
    [done |-> FALSE, fm |-> 0, dt_num |-> 0, dt_den |-> 2,
     raised |-> FALSE, num |-> 0, den |-> 0]

NoHap == [some |-> FALSE, hap |-> <<>>]

(***************************************************************************)
(* interval_distance (src/src/LeftFairnessMeasure.py)                      *)
(*                                                                         *)
(* The result is a float built from terms abs(sum - (j - i)/2), each a     *)
(* multiple of 1/2; it is kept as the exact fraction num / 2.              *)
(***************************************************************************)
\* A term with the floor division (j - i) // 2, in halves.
DistanceTermFloor(string, i, j) == Abs(2 * SliceSum(string, i, j) - 2 * ((j - i) \div 2))

\* abs(sum(string[i:j]) - (j - i)/2), in halves.
DistanceTerm(string, i, j) == Abs(2 * SliceSum(string, i, j) - (j - i))

\* interval_distance(string): for i in range(n): for j in range(i + 2, n + 1)
RECURSIVE DistanceInner(_, _, _)
DistanceInner(string, i, j) ==
    IF j >= Len(string) + 1 THEN 0
    ELSE DistanceTerm(string, i, j) + DistanceInner(string, i, j + 1)

RECURSIVE DistanceOuter(_, _)
DistanceOuter(string, i) ==
    IF i >= Len(string) THEN 0
    ELSE DistanceInner(string, i, i + 2) + DistanceOuter(string, i + 1)

IntervalDistance(string) == [done |-> TRUE, num |-> DistanceOuter(string, 0), den |-> 2]

NoDistance == [done |-> FALSE, num |-> 0, den |-> 2]

HapInputs == UNION {[1..k -> Letters] : k \in 0..MaxHapLen}

HapIdle ==
    /\ hap = <<>>
    /\ hres = NoMeasures
    /\ hcompl = NoHap
    /\ cres = NoMeasures
    /\ idist = NoDistance

(***************************************************************************)
(* MinRankingFairnessModel (src/optimal-f-value-n-6-10-14/minF.py)         *)
(*                                                                         *)
(* _build hands variables, linear constraints and objective coefficients   *)
(* to the external solver.  The constraints are predicates over the values *)
(* of the variables: xs is the set of (i, j, r) with x[i, j, r] = 1 and bs *)
(* the set of (i, p) with b[i, p] = 1; every other x and b is 0.           *)
(***************************************************************************)
PlayerSet(n) == 0..(n - 1)

RoundSet(n) == 0..(n - 2)

\* A test that takes the away letter for home.
PatternLetterIsAway(pattern, r) == pattern[r + 1] = "A"

\* plays_home: pattern[r] == 'H'
PatternLetterIsHome(pattern, r) == pattern[r + 1] = "H"

\* The rounds r of the problem with problem.plays_home(p, r).
HomeRounds(n, p) ==
    LET s == Pattern(n, p)
    IN  {r \in RoundSet(n) : PatternLetterIsHome(s, r)}

\* sum(x[i, j, r] for r in rounds)
XSum(n, xs, i, j) == Cardinality({r \in RoundSet(n) : <<i, j, r>> \in xs})

\* quicksum(x[i, j, r] + x[j, i, r] for r in rounds)
MeetSum(n, xs, i, j) == XSum(n, xs, i, j) + XSum(n, xs, j, i)

\* quicksum(x[i, j, r] for j in opponents(i))
HomeSum(n, xs, i, r) == Cardinality({j \in PlayerSet(n) \ {i} : <<i, j, r>> \in xs})

\* quicksum(x[i, j, r] + x[j, i, r] for j in opponents(i))
PlaySum(n, xs, i, r) ==
    HomeSum(n, xs, i, r) + Cardinality({j \in PlayerSet(n) \ {i} : <<j, i, r>> \in xs})

\* quicksum(b[i, p] for p in break_patterns [if plays_home(p, r)]): a sum over
\* the list, so a pattern listed twice counts twice.
BSum(model, bs, i, positions) ==
    Cardinality({k \in positions : <<i, model.patterns[k]>> \in bs})

AllPatternPositions(model) == 1..Len(model.patterns)

HomePatternPositions(model, r) ==
    {k \in 1..Len(model.patterns) : r \in model.home[k]}

\* Lines 40-44: every player is assigned exactly one pattern.
OnePatternConstr(n, model, bs) ==
    \A i \in PlayerSet(n) : BSum(model, bs, i, AllPatternPositions(model)) = 1

\* Lines 46-50: play every opponent exactly once.
MeetOnceConstr(n, xs) ==
    \A i \in PlayerSet(n) : \A j \in PlayerSet(n) :
        i < j => MeetSum(n, xs, i, j) = 1

\* Lines 52-57: play exactly once in every round.
OncePerRoundConstr(n, xs) ==
    \A i \in PlayerSet(n) : \A r \in RoundSet(n) : PlaySum(n, xs, i, r) = 1

\* Lines 59-64: the break pattern matches the home/away assignment.
PatternConstr(n, model, xs, bs) ==
    \A i \in PlayerSet(n) : \A r \in RoundSet(n) :
        HomeSum(n, xs, i, r) = BSum(model, bs, i, HomePatternPositions(model, r))

\* Lines 105-111: one entry (i, j, rhs) of model.catc stands for the constraint
\* quicksum(x[i, j, r] for r in rounds) == rhs.
CatalogConstr(n, model, xs) ==
    \A c \in model.catc : XSum(n, xs, c[1], c[2]) = c[3]

\* The index set of z: (p, i, j) with i in range(n), j in range(i + 2, n).
ZIndex(n) ==
    {t \in PlayerSet(n) \X (0..(n - 1)) \X (0..(n - 1)) : t[3] >= t[2] + 2}

\* The slice taken from the players instead of the opponents of p.
HSumOverPlayers(n, xs, p, i, j) ==
    LET all == Players(n)
        last == IF j <= Len(all) THEN j ELSE Len(all)
        slice == {all[k] : k \in (i + 1)..last}
    IN  Cardinality({m \in xs : m[1] = p /\ m[2] \in slice})

\* h_p_ij: quicksum(x[p, q, r] for r in rounds for q in list(opponents(p))[i:j]),
\* the number of home matches of p against the opponents of the slice.
HSum(n, xs, p, i, j) ==
    LET opp == Opponents(n, p)
        last == IF j <= Len(opp) THEN j ELSE Len(opp)
        slice == {opp[k] : k \in (i + 1)..last}
    IN  Cardinality({m \in xs : m[1] = p /\ m[2] \in slice})

\* The difference the comment on line 67 describes: interval length j - i + 1.
DiffOfComment(h_p_ij, i, j) == 2 * h_p_ij - (j - i + 1)

\* diff = 2*h_p_ij - (j - i)
Diff(h_p_ij, i, j) == 2 * h_p_ij - (j - i)

\* Lines 89-94: the constraints on one z[p, i, j], a variable with lower
\* bound 0.  Total mode: z >= diff and z >= -diff.  Bandwidth mode: z == diff
\* when z_sign = 1 and z == -diff when z_sign = 0, for a binary z_sign.
DeviationBound(bandwidth, diff, z_pij) ==
    /\ z_pij >= 0
    /\ IF bandwidth THEN z_pij \in {diff, -diff}
       ELSE z_pij >= diff /\ z_pij >= -diff

\* Lines 83-94: the constraints on every z[p, i, j].
DeviationConstr(n, bandwidth, xs, z) ==
    \A t \in ZIndex(n) :
        DeviationBound(bandwidth, Diff(HSum(n, xs, t[1], t[2], t[3]), t[2], t[3]), z[t])

\* quicksum(z[p, i, j] for i in range(n) for j in range(i + 2, n))
ZSum(n, z, p) ==
    LET RECURSIVE Inner(_, _)
        Inner(i, j) == IF j > n - 1 THEN 0 ELSE z[<<p, i, j>>] + Inner(i, j + 1)
        RECURSIVE Outer(_)
        Outer(i) == IF i > n - 1 THEN 0 ELSE Inner(i, i + 2) + Outer(i + 1)
    IN  Outer(0)

\* Lines 96-103: every player's sum of z lies between f_min and f_max, both
\* variables with lower bound 0.
BandwidthConstr(n, bandwidth, z, f_min, f_max) ==
    bandwidth =>
        /\ f_min >= 0
        /\ f_max >= 0
        /\ \A p \in PlayerSet(n) : ZSum(n, z, p) <= f_max /\ ZSum(n, z, p) >= f_min

\* Lines 107-108: the (i, j, ha) the two loops visit: i counts the strings of
\* the catalog, (j, ha) runs through zip(opponents(i), ranking_hap).
CatalogEntries(n, cat) ==
    IF ~cat.some THEN {}
    ELSE UNION {{<<i, e[1], e[2]>> : e \in Range(Zip(Opponents(n, i), cat.val[i + 1]))} :
                  i \in 0..(Len(cat.val) - 1)}

\* x[i, j, r] raises KeyError for an entry whose i is no player.
CatalogKeyError(n, cat) == \E e \in CatalogEntries(n, cat) : e[1] \notin PlayerSet(n)

\* Only the letters H of the catalog are turned into constraints.
CatalogRhsOnlyHome(entries) == {<<e[1], e[2], 1>> : e \in {f \in entries : f[3] = "H"}}

\* == (1 if ha == 'H' else 0)
CatalogRhs(entries) == {<<e[1], e[2], IF e[3] = "H" THEN 1 ELSE 0>> : e \in entries}

\* print_ranking_haps, lines 179-188: the string built for player i, a letter
\* per opponent in the order of opponents(i), H when the sum of x[i, j, r]
\* over the rounds exceeds 0.5.
RankingHapOf(n, xs, i) ==
    LET opp == Opponents(n, i)
    IN  [k \in 1..Len(opp) |-> IF XSum(n, xs, i, opp[k]) >= 1 THEN "H" ELSE "A"]

\* print_ranking_haps, lines 177-192: f_values, the sum of
\* RankingHap(ranking_hap).f_value() over the players, as an exact fraction:
\* every string has n - 1 letters, so every f_value has the same denominator.
\* The first f_value raises ZeroDivisionError when that denominator is 0.
FValuesSum(haps) ==
    LET measures == [k \in 1..Len(haps) |-> Measures(haps[k])]
    IN  IF measures[1].raised
        THEN [done |-> TRUE, raised |-> TRUE, num |-> 0, den |-> 0]
        ELSE [done |-> TRUE, raised |-> FALSE,
              num |-> SumSeq([k \in 1..Len(haps) |-> measures[k].num]),
              den |-> measures[1].den]

\* The variable families _build adds, by name.
Families(bandwidth) ==
    {"x", "b", "z"} \cup (IF bandwidth THEN {"f_min", "f_max", "z_sign"} ELSE {})

\* The obj= argument of each addVar call (0 when it is not given).
ObjCoef(family) ==
    CASE family = "f_min" -> -1
      [] family = "f_max" -> 1
      [] family = "z" -> 1
      [] OTHER -> 0

\* The model _build leaves in self.model.
BuiltModel(n, gaps, cat, bandwidth) ==
    LET patterns == BreakPatterns(n, gaps)
    IN  [families |-> Families(bandwidth),
         objc |-> [f \in Families(bandwidth) |-> ObjCoef(f)],
         patterns |-> patterns,
         home |-> [k \in 1..Len(patterns) |-> HomeRounds(n, patterns[k])],
         catc |-> CatalogRhs(CatalogEntries(n, cat))]

NoModel ==
    [families |-> {}, objc |-> [f \in {} |-> 0], patterns |-> <<>>,
     home |-> <<>>, catc |-> {}]

NoZ == [t \in {} |-> 0]

NoSolution == [f_min |-> 0, f_max |-> 0, obj |-> 0]

NoCatalog == [some |-> FALSE, val |-> <<>>]

NoFValues == [done |-> FALSE, raised |-> FALSE, num |-> 0, den |-> 0]

OptIdle ==
    /\ on = 0
    /\ ogaps = NoGaps
    /\ ocat = NoCatalog
    /\ obw = FALSE
    /\ opc = "idle"
    /\ omodel = NoModel
    /\ ox = {}
    /\ ob = {}
    /\ ornd = 0
    /\ oz = NoZ
    /\ osol = NoSolution
    /\ ohaps = <<>>
    /\ ofsum = NoFValues

(***************************************************************************)
(* circle_method (src/src/circlemethod.py)                                 *)
(***************************************************************************)
CircleInputs == (-1)..MaxCircleN

\* deque[:n // 2]
CircleLeft(dq, n) == SubSeq(dq, 1, n \div 2)

\* deque[n // 2:]
CircleRight(dq, n) == SubSeq(dq, (n \div 2) + 1, Len(dq))

\* The matches of a round with the fixed player at home in even rounds.
CircleMatchesHubHomeOnEven(dq, n, r) ==
    LET fixed_player == n - 1
        first == IF r % 2 = 0 THEN <<fixed_player, dq[1]>>
                              ELSE <<dq[1], fixed_player>>
    IN  <<first>> \o Zip(Tail(CircleLeft(dq, n)), Reverse(CircleRight(dq, n)))

\* The matches of round r: the fixed player against deque[0], then the rest
\* of the left half zipped against the reversed right half.
CircleMatches(dq, n, r) ==
    LET fixed_player == n - 1
        left  == CircleLeft(dq, n)
        right == CircleRight(dq, n)
        first == IF r % 2 = 0 THEN <<dq[1], fixed_player>>
                              ELSE <<fixed_player, dq[1]>>
    IN  <<first>> \o Zip(Tail(left), Reverse(right))

\* A rotation that forgets to swap the halves.
CircleRotateUnswapped(dq, n) == CircleLeft(dq, n) \o CircleRight(dq, n)

\* deque = right + left
CircleRotate(dq, n) == CircleRight(dq, n) \o CircleLeft(dq, n)

CircleIdle ==
    /\ cn = 0
    /\ cpc = "idle"
    /\ deque = <<>>
    /\ rounds = <<>>
    /\ cr = 0

CircleInit ==
    /\ OptIdle
    /\ DomIdle
    /\ HapIdle
    /\ SearchIdle
    /\ cn \in CircleInputs
    /\ cpc = "start"
    /\ deque = <<>>
    /\ rounds = <<>>
    /\ cr = 0

\* assert n > 0; assert n % 2 == 0: a failed assertion ends the call.
CircleAssertFail ==
    /\ cpc = "start"
    /\ ~(cn > 0 /\ cn % 2 = 0)
    /\ cpc' = "failed"
    /\ UNCHANGED <<circleOthers, cn, deque, rounds, cr>>

\* Both assertions pass: rounds = [], deque = list(range(n - 1)).
CircleStart ==
    /\ cpc = "start"
    /\ cn > 0
    /\ cn % 2 = 0
    /\ cpc' = "loop"
    /\ deque' = RangeList(cn - 1)
    /\ rounds' = <<>>
    /\ cr' = 0
    /\ UNCHANGED <<circleOthers, cn>>

\* One iteration of "for r in range(nrounds)".
CircleRound ==
    /\ cpc = "loop"
    /\ cr < cn - 1
    /\ rounds' = Append(rounds, CircleMatches(deque, cn, cr))
    /\ deque' = CircleRotate(deque, cn)
    /\ cr' = cr + 1
    /\ UNCHANGED <<circleOthers, cn, cpc>>

\* The loop is exhausted: return rounds.
CircleReturn ==
    /\ cpc = "loop"
    /\ cr = cn - 1
    /\ cpc' = "done"
    /\ UNCHANGED <<circleOthers, cn, deque, rounds, cr>>

CircleNext ==
    \/ CircleAssertFail
    \/ CircleStart
    \/ CircleRound
    \/ CircleReturn

SpecCircle == CircleInit /\ [][CircleNext]_vars

(***************************************************************************)
(* FairSrrProblem: construction, pattern(), tight_order_break_patterns()   *)
(***************************************************************************)
DomInit ==
    /\ OptIdle
    /\ CircleIdle
    /\ HapIdle
    /\ SearchIdle
    /\ dn \in (-1)..MaxDomN
    /\ dgaps \in DomInputGaps
    /\ dpc = "new"
    /\ dcall = NoCall
    /\ tpc = "idle"
    /\ tidx = 0
    /\ thome = TRUE
    /\ tyield = <<>>

\* FairSrrProblem(n, gaps): every assertion passes and the fields are set.
DomConstruct ==
    /\ dpc = "new"
    /\ ConstructionAsserts(dn, dgaps)
    /\ dpc' = "constructed"
    /\ UNCHANGED <<domOthers, dn, dgaps, dcall, tpc, tidx, thome, tyield>>

\* FairSrrProblem(n, gaps): an assertion fails, no object is made.
DomConstructFail ==
    /\ dpc = "new"
    /\ ~ConstructionAsserts(dn, dgaps)
    /\ dpc' = "failed"
    /\ UNCHANGED <<domOthers, dn, dgaps, dcall, tpc, tidx, thome, tyield>>

\* The patterns pattern() is called with: the problem's break patterns, and
\* every (round, letter) of the problem.
PatternArgs(n, gaps) ==
    Range(BreakPatterns(n, gaps)) \cup (Range(Rounds(n)) \X Letters)

\* problem.pattern(p)
DomPattern ==
    /\ dpc = "constructed"
    /\ tpc = "idle"
    /\ \E p \in PatternArgs(dn, dgaps) :
          dcall' = [op |-> "pattern", arg |-> p, val |-> Pattern(dn, p)]
    /\ UNCHANGED <<domOthers, dn, dgaps, dpc, tpc, tidx, thome, tyield>>

\* list(problem.break_rounds)
DomBreakRounds ==
    /\ dpc = "constructed"
    /\ tpc = "idle"
    /\ dcall' = [op |-> "break_rounds", arg |-> NoCall.arg,
                 val |-> BreakRounds(dn, dgaps)]
    /\ UNCHANGED <<domOthers, dn, dgaps, dpc, tpc, tidx, thome, tyield>>

\* list(problem.break_patterns)
DomBreakPatterns ==
    /\ dpc = "constructed"
    /\ tpc = "idle"
    /\ dcall' = [op |-> "break_patterns", arg |-> NoCall.arg,
                 val |-> BreakPatterns(dn, dgaps)]
    /\ UNCHANGED <<domOthers, dn, dgaps, dpc, tpc, tidx, thome, tyield>>

\* chain(self.break_rounds, self.break_rounds)
TightRounds(n, gaps) == BreakRounds(n, gaps) \o BreakRounds(n, gaps)

\* chain((0,), self.break_gaps, self.break_gaps), for a problem with gaps.
TightDeltas(gaps) == <<0>> \o gaps.val \o gaps.val

\* A polarity test that flips on even gaps.
TightFlipsOnEven(d) == d % 2 = 0

\* if d % 2 == 1
TightFlips(d) == d % 2 = 1

\* problem.tight_order_break_patterns() is called: home = True.
TightStart ==
    /\ dpc = "constructed"
    /\ tpc = "idle"
    /\ dcall = NoCall
    /\ tpc' = "running"
    /\ tidx' = 0
    /\ thome' = TRUE
    /\ tyield' = <<>>
    /\ UNCHANGED <<domOthers, dn, dgaps, dpc, dcall>>

\* The next item of the zip is taken and a pattern is yielded.
TightYield ==
    /\ tpc = "running"
    /\ tidx < Len(TightRounds(dn, dgaps))
    /\ dgaps.some \/ tidx = 0
    /\ dgaps.some => tidx < Len(TightDeltas(dgaps))
    /\ LET r == TightRounds(dn, dgaps)[tidx + 1]
           d == IF tidx = 0 THEN 0 ELSE TightDeltas(dgaps)[tidx + 1]
           home == IF TightFlips(d) THEN ~thome ELSE thome
       IN  /\ thome' = home
           /\ tyield' = Append(tyield, <<r, IF home THEN "H" ELSE "A">>)
    /\ tidx' = tidx + 1
    /\ UNCHANGED <<domOthers, dn, dgaps, dpc, dcall, tpc>>

\* One of the zipped iterators is exhausted: the generator ends.
TightExhausted ==
    /\ tpc = "running"
    /\ dgaps.some
    /\ \/ tidx >= Len(TightRounds(dn, dgaps))
       \/ tidx >= Len(TightDeltas(dgaps))
    /\ tpc' = "exhausted"
    /\ UNCHANGED <<domOthers, dn, dgaps, dpc, dcall, tidx, thome, tyield>>

\* Without gaps the second chain reaches break_gaps = None after its first
\* item: iterating None raises TypeError.
TightTypeError ==
    /\ tpc = "running"
    /\ ~dgaps.some
    /\ tidx = 1
    /\ tpc' = "error"
    /\ UNCHANGED <<domOthers, dn, dgaps, dpc, dcall, tidx, thome, tyield>>

DomNext ==
    \/ DomConstruct
    \/ DomConstructFail
    \/ DomPattern
    \/ DomBreakRounds
    \/ DomBreakPatterns
    \/ TightStart
    \/ TightYield
    \/ TightExhausted
    \/ TightTypeError

SpecDomain == DomInit /\ [][DomNext]_vars

(***************************************************************************)
(* RankingHap: the measures of a hap and of its complement                 *)
(***************************************************************************)
HapInit ==
    /\ OptIdle
    /\ CircleIdle
    /\ DomIdle
    /\ SearchIdle
    /\ hap \in HapInputs
    /\ hres = NoMeasures
    /\ hcompl = NoHap
    /\ cres = NoMeasures
    /\ idist = NoDistance

\* f_measure_counted_twice(), delta_t() and f_value() of the object.
HapEvaluate ==
    /\ ~hres.done
    /\ hres' = Measures(hap)
    /\ UNCHANGED <<hapOthers, hap, hcompl, cres, idist>>

\* complement() of the object.
HapComplement ==
    /\ hres.done
    /\ ~hcompl.some
    /\ hcompl' = [some |-> TRUE, hap |-> Complement(hap)]
    /\ UNCHANGED <<hapOthers, hap, hres, cres, idist>>

\* f_measure_counted_twice(), delta_t() and f_value() of the complement.
ComplementEvaluate ==
    /\ hcompl.some
    /\ ~cres.done
    /\ cres' = Measures(hcompl.hap)
    /\ UNCHANGED <<hapOthers, hap, hres, hcompl, idist>>

\* interval_distance() of the 0/1 list of the object's hap.
HapIntervalDistance ==
    /\ hres.done
    /\ ~hcompl.some
    /\ ~idist.done
    /\ idist' = IntervalDistance(Indicator(hap))
    /\ UNCHANGED <<hapOthers, hap, hres, hcompl, cres>>

HapNext ==
    \/ HapIntervalDistance
    \/ HapEvaluate
    \/ HapComplement
    \/ ComplementEvaluate

SpecHap == HapInit /\ [][HapNext]_vars

(***************************************************************************)
(* MinRankingFairnessModel: _build, optimize and the solver's search       *)
(*                                                                         *)
(* The solver is external.  Its search is modelled as fixing the x         *)
(* variables round by round, match by match, never leaving a partial       *)
(* assignment that already breaks one of the constraints; when every round *)
(* is fixed it fixes b, sets the continuous variables to their best values *)
(* for these x and b, and the assignment is a solution if it satisfies     *)
(* every constraint of the model.  The solutions the solver may return are *)
(* the states with opc = "solved"; the model is infeasible when there is   *)
(* none.                                                                   *)
(***************************************************************************)
\* The problem of the experiment for n = 6: d-sequence 221.
SixTeams == 6

SixTeamGaps == [some |-> TRUE, val |-> <<2, 2, 1>>]

\* The break gaps of the problems with four teams.
FourTeamGaps ==
    {NoGaps, [some |-> TRUE, val |-> <<1, 2>>], [some |-> TRUE, val |-> <<2, 1>>]}

\* The letter the catalog gives player i against player j.
CatalogLetter(n, cat, i, j) ==
    LET opp == Opponents(n, i)
    IN  cat[i + 1][CHOOSE k \in 1..Len(opp) : opp[k] = j]

\* The pairs the catalog contradicts itself on: both home, or both away.
ContradictoryPairs(n, cat) ==
    {pr \in PlayerSet(n) \X PlayerSet(n) :
        /\ pr[1] < pr[2]
        /\ CatalogLetter(n, cat, pr[1], pr[2]) = CatalogLetter(n, cat, pr[2], pr[1])}

\* Every catalog of n strings of n - 1 letters with at most MaxContradictions
\* contradictory pairs.
FullCatalogs(n) ==
    {[some |-> TRUE, val |-> c] :
        c \in {d \in [1..n -> [1..(n - 1) -> Letters]] :
                 Cardinality(ContradictoryPairs(n, d)) <= MaxContradictions}}

\* For two teams: every catalog of up to three strings of up to two letters.
LooseCatalogs ==
    LET strings == UNION {[1..k -> Letters] : k \in 0..2}
    IN  {[some |-> TRUE, val |-> c] : c \in UNION {[1..k -> strings] : k \in 0..3}}

OptConfigs ==
    {[n |-> SixTeams, gaps |-> SixTeamGaps, cat |-> NoCatalog, bw |-> FALSE]}
    \cup [n : {4}, gaps : FourTeamGaps, cat : {NoCatalog}, bw : BOOLEAN]
    \cup [n : {4}, gaps : {NoGaps}, cat : FullCatalogs(4), bw : {FALSE}]
    \cup [n : {2}, gaps : {NoGaps, [some |-> TRUE, val |-> <<1>>]},
          cat : {NoCatalog}, bw : BOOLEAN]
    \cup [n : {2}, gaps : {NoGaps}, cat : LooseCatalogs, bw : {FALSE}]

\* MinRankingFairnessModel(problem, ranking_hap_set, bandwidth) is called with
\* a constructed problem.
OptInit ==
    /\ CircleIdle
    /\ DomIdle
    /\ HapIdle
    /\ SearchIdle
    /\ \E c \in OptConfigs :
          /\ on = c.n
          /\ ogaps = c.gaps
          /\ ocat = c.cat
          /\ obw = c.bw
    /\ opc = "new"
    /\ omodel = NoModel
    /\ ox = {}
    /\ ob = {}
    /\ ornd = 0
    /\ oz = NoZ
    /\ osol = NoSolution
    /\ ohaps = <<>>
    /\ ofsum = NoFValues

\* __init__ and _build run to the end: self.model is set.
OptBuild ==
    /\ opc = "new"
    /\ ~CatalogKeyError(on, ocat)
    /\ opc' = "built"
    /\ omodel' = BuiltModel(on, ogaps, ocat, obw)
    /\ UNCHANGED <<optOthers, on, ogaps, ocat, obw, ox, ob, ornd, oz, osol, ohaps, ofsum>>

\* _build raises KeyError while it adds the catalog's constraints.
OptBuildKeyError ==
    /\ opc = "new"
    /\ CatalogKeyError(on, ocat)
    /\ opc' = "error"
    /\ UNCHANGED <<optOthers, on, ogaps, ocat, obw, omodel, ox, ob, ornd, oz, osol, ohaps, ofsum>>

\* optimize(): the model is handed to the solver.
OptOptimize ==
    /\ opc = "built"
    /\ opc' = "solving"
    /\ UNCHANGED <<optOthers, on, ogaps, ocat, obw, omodel, ox, ob, ornd, oz, osol, ohaps, ofsum>>

\* The players without a match in round r.
FreePlayers(n, xs, r) ==
    PlayerSet(n) \ UNION {{m[1], m[2]} : m \in {k \in xs : k[3] = r}}

Min(S) == CHOOSE v \in S : \A w \in S : v <= w

Max(S) == CHOOSE v \in S : \A w \in S : v >= w

\* The rounds in which player i has a home match.
HomeRoundsOf(xs, i) == {m[3] : m \in {k \in xs : k[1] = i}}

\* Some pattern's home rounds up to round r are the given rounds.
HasCompatiblePattern(model, homeRounds, r) ==
    \E k \in 1..Len(model.patterns) : model.home[k] \cap (0..r) = homeRounds

\* No constraint is broken yet by fixing x[h, a, r] = 1 on top of xs: the two
\* players have not met before, so this is their one meeting and the catalog's
\* constraints on the pair are decided; and each of the two still has a
\* pattern that agrees with its home rounds so far.
Extendable(n, model, xs, h, a, r) ==
    /\ \A m \in xs : {m[1], m[2]} # {h, a}
    /\ \A c \in model.catc :
          /\ (c[1] = h /\ c[2] = a) => c[3] = 1
          /\ (c[1] = a /\ c[2] = h) => c[3] = 0
    /\ HasCompatiblePattern(model, HomeRoundsOf(xs, h) \cup {r}, r)
    /\ HasCompatiblePattern(model, HomeRoundsOf(xs, a), r)

\* The solver gives the first of the free players of the current round its
\* match.
FixMatchOf(free, i) ==
    \E j \in free \ {i} : \E m \in {<<i, j>>, <<j, i>>} :
        /\ Extendable(on, omodel, ox, m[1], m[2], ornd)
        /\ ox' = ox \cup {<<m[1], m[2], ornd>>}
        /\ ornd' = IF free = {i, j} THEN ornd + 1 ELSE ornd

\* The solver fixes the match of the first free player of the current round.
SolverFixMatch ==
    /\ opc = "solving"
    /\ ornd <= on - 2
    /\ \E free \in {FreePlayers(on, ox, ornd)} : FixMatchOf(free, Min(free))
    /\ UNCHANGED <<optOthers, on, ogaps, ocat, obw, opc, omodel, ob, oz, osol, ohaps, ofsum>>

\* The patterns whose home rounds are the given rounds.
FittingPatterns(model, homeRounds) ==
    {model.patterns[k] : k \in {q \in 1..Len(model.patterns) : model.home[q] = homeRounds}}

\* The b assignments that give every player one pattern with its home rounds.
RECURSIVE PatternAssignmentsFrom(_, _, _, _)
PatternAssignmentsFrom(n, model, xs, i) ==
    IF i > n - 1 THEN {{}}
    ELSE {{<<i, p>>} \cup rest : p \in FittingPatterns(model, HomeRoundsOf(xs, i)),
                                rest \in PatternAssignmentsFrom(n, model, xs, i + 1)}

PatternAssignments(n, model, xs) == PatternAssignmentsFrom(n, model, xs, 0)

\* The best value of every z for given x: the absolute value of its diff.
BestZ(n, xs) ==
    [t \in ZIndex(n) |-> Abs(Diff(HSum(n, xs, t[1], t[2], t[3]), t[2], t[3]))]

\* The best values of f_min and f_max for given z, the smallest and the largest
\* sum of z of a player, and the value of the objective: the sum of every
\* variable times its objective coefficient.
BestBounds(n, model, bandwidth, z) ==
    LET sums == [k \in 1..n |-> ZSum(n, z, k - 1)]
        f_min == IF bandwidth THEN Min(Range(sums)) ELSE 0
        f_max == IF bandwidth THEN Max(Range(sums)) ELSE 0
    IN  [f_min |-> f_min, f_max |-> f_max,
         obj |-> model.objc["z"] * SumSeq(sums)
                 + (IF bandwidth
                    THEN model.objc["f_max"] * f_max + model.objc["f_min"] * f_min
                    ELSE 0)]

\* Every constraint _build added holds.
AllConstraints(n, model, bandwidth, xs, bs, z, sol) ==
    /\ OnePatternConstr(n, model, bs)
    /\ MeetOnceConstr(n, xs)
    /\ OncePerRoundConstr(n, xs)
    /\ PatternConstr(n, model, xs, bs)
    /\ DeviationConstr(n, bandwidth, xs, z)
    /\ BandwidthConstr(n, bandwidth, z, sol.f_min, sol.f_max)
    /\ CatalogConstr(n, model, xs)

\* Every round is fixed: the solver fixes b and the continuous variables and
\* has a solution if every constraint holds.
SolverFinish ==
    /\ opc = "solving"
    /\ ornd = on - 1
    /\ ob' \in PatternAssignments(on, omodel, ox)
    /\ oz' = BestZ(on, ox)
    /\ osol' = BestBounds(on, omodel, obw, oz')
    /\ AllConstraints(on, omodel, obw, ox, ob', oz', osol')
    /\ opc' = "solved"
    /\ UNCHANGED <<optOthers, on, ogaps, ocat, obw, omodel, ox, ornd, ohaps, ofsum>>

\* print_ranking_haps() after the solver returned a solution.
OptPrintRankingHaps ==
    /\ opc = "solved"
    /\ ~ofsum.done
    /\ ohaps' = [k \in 1..on |-> RankingHapOf(on, ox, k - 1)]
    /\ ofsum' = FValuesSum(ohaps')
    /\ UNCHANGED <<optOthers, on, ogaps, ocat, obw, opc, omodel, ox, ob, ornd, oz, osol>>

OptNext ==
    \/ OptBuild
    \/ OptBuildKeyError
    \/ OptOptimize
    \/ SolverFixMatch
    \/ SolverFinish
    \/ OptPrintRankingHaps

SpecOpt == OptInit /\ [][OptNext]_vars

\* The positions (round, match) of the returned schedule.
CirclePositions == {<<k, m>> \in (1..Len(rounds)) \X (1..MaxCircleN) : m <= Len(rounds[k])}

CircleTeamsOf(k, m) == {rounds[k][m][1], rounds[k][m][2]}

\* C1: for every even n > 0 the schedule circle_method(n) returns has exactly
\* n - 1 rounds of exactly n / 2 matches, every team 0..n-1 is in exactly one
\* match of every round, and every unordered pair of distinct teams is in
\* exactly one match of the whole schedule.
C1_CircleIsSingleRoundRobin ==
    (cpc = "done") =>
        /\ Len(rounds) = cn - 1
        /\ \A k \in 1..Len(rounds) : Len(rounds[k]) = cn \div 2
        /\ \A k \in 1..Len(rounds) : \A t \in 0..(cn - 1) :
              Cardinality({m \in 1..Len(rounds[k]) : t \in CircleTeamsOf(k, m)}) = 1
        /\ \A i \in 0..(cn - 1) : \A j \in (i + 1)..(cn - 1) :
              Cardinality({pos \in CirclePositions :
                             CircleTeamsOf(pos[1], pos[2]) = {i, j}}) = 1

\* circle_method(6) has returned the schedule Python computes.
C1_Witness ==
    /\ cpc = "done"
    /\ cn = 6
    /\ rounds = << << <<0, 5>>, <<1, 4>>, <<2, 3>> >>,
                   << <<5, 3>>, <<4, 2>>, <<0, 1>> >>,
                   << <<1, 5>>, <<2, 0>>, <<3, 4>> >>,
                   << <<5, 4>>, <<0, 3>>, <<1, 2>> >>,
                   << <<2, 5>>, <<3, 1>>, <<4, 0>> >> >>

\* The match of the hub in the round the loop body has just appended.
HubMatchAppended == rounds'[Len(rounds')][1]

\* C12 (corrected): in every round r of circle_method(n) the hub (team n-1)
\* plays the first element of the current sequence, and the hub is the away
\* team (second component of the match tuple) when r is even and the home
\* team (first component) when r is odd.
C12_HubAwayOnEvenRounds ==
    [][CircleRound =>
          /\ Len(rounds') = cr + 1
          /\ HubMatchAppended = IF cr % 2 = 0 THEN <<deque[1], cn - 1>>
                                               ELSE <<cn - 1, deque[1]>>]_vars

\* circle_method(6) has returned: the hub 5 was away against 0 in round 0,
\* at home against 3 in round 1 and away against 1 in round 2.
C12_Witness ==
    /\ cpc = "done"
    /\ cn = 6
    /\ rounds[1][1] = <<0, 5>>
    /\ rounds[2][1] = <<5, 3>>
    /\ rounds[3][1] = <<1, 5>>

\* C12 (as claimed): in every round r the hub plays the first element of the
\* current sequence, and the hub is the home team (first component of the
\* match tuple) when r is even and the away team when r is odd.
C12_HubHomeOnEvenRounds ==
    [][CircleRound =>
          /\ Len(rounds') = cr + 1
          /\ HubMatchAppended = IF cr % 2 = 0 THEN <<cn - 1, deque[1]>>
                                               ELSE <<deque[1], cn - 1>>]_vars

(***************************************************************************)
(* Properties of MinRankingFairnessModel                                   *)
(***************************************************************************)
\* The solver returned a solution of the experiment for six teams.
SolvedSix ==
    /\ opc = "solved"
    /\ on = SixTeams
    /\ ogaps = SixTeamGaps
    /\ ~ocat.some
    /\ ~obw

\* The matches of round r in x.
MatchesOfRound(r) == {m \in ox : m[3] = r}

\* The meetings of players i and j in x.
MeetingsOf(i, j) == {m \in ox : {m[1], m[2]} = {i, j}}

\* The patterns b assigns to player i.
PatternsOf(i) == {e[2] : e \in {f \in ob : f[1] = i}}

\* The letter of player i in round r: H for a home match, A for an away match.
LettersOf(i, r) ==
    {IF m[1] = i THEN "H" ELSE "A" : m \in {k \in MatchesOfRound(r) : i \in {k[1], k[2]}}}

\* C2: for n = 6 with break gaps (2, 2, 1), no catalog and total mode, every
\* assignment the solver ends with has 3 matches in each of the 5 rounds, has
\* every unordered pair meet exactly once, gives every team exactly one break
\* pattern of the problem, and has every team play at home or away in every
\* round as the letter of its pattern says.
C2_SolutionIsPatternedRoundRobin ==
    SolvedSix =>
        /\ \A r \in 0..4 : Cardinality(MatchesOfRound(r)) = 3
        /\ \A m \in ox : m[3] \in 0..4 /\ m[1] # m[2] /\ {m[1], m[2]} \subseteq 0..5
        /\ \A i \in 0..5 : \A j \in 0..5 : i < j => Cardinality(MeetingsOf(i, j)) = 1
        /\ \A i \in 0..5 :
              /\ Cardinality(PatternsOf(i)) = 1
              /\ PatternsOf(i) \subseteq Range(BreakPatterns(SixTeams, SixTeamGaps))
              /\ \A p \in PatternsOf(i) : \A r \in 0..4 :
                    LettersOf(i, r) = {Pattern(SixTeams, p)[r + 1]}

\* The constraint system for six teams is satisfiable: the solver ended with an
\* assignment of 15 matches and 6 patterns.
C2_Witness ==
    /\ SolvedSix
    /\ Cardinality(ox) = 15
    /\ Cardinality(ob) = 6

\* print_ranking_haps ran on a solution of the experiment for six teams.
ReportedSix == SolvedSix /\ ofsum.done

\* The sum of f_measure_counted_twice over the strings print_ranking_haps built.
MeasureSumOfHaps ==
    SumSeq([k \in 1..Len(ohaps) |-> FMeasureCountedTwice(ohaps[k])])

\* C3 (corrected): for n = 6, break gaps (2, 2, 1), no catalog, total mode, the
\* objective value of a solution is the sum over the teams of
\* f_measure_counted_twice of the resulting ranking-HAPs, at least 36; the sum
\* of the teams' f_value is (12 * objective - 3 * n * (n-2)^2) / (n (n-1) (n-2)),
\* which is 144/120 = 1.2 for the least objective 36.
C3_ObjectiveIsMeasureSum ==
    ReportedSix =>
        /\ ~ofsum.raised
        /\ osol.obj = MeasureSumOfHaps
        /\ osol.obj >= 36
        /\ ofsum.den = 120
        /\ ofsum.num = 12 * osol.obj - 3 * 6 * 4 * 4

\* A solution of least objective was reported: objective 36, f_values 144/120.
C3_Witness ==
    /\ ReportedSix
    /\ osol.obj = 36
    /\ ofsum.num = 144
    /\ ofsum.den = 120

\* C3 (as claimed): the objective value of an optimal solution equals the sum
\* of the teams' f_value results, n times their mean.
C3_ObjectiveIsFValueSum ==
    (ReportedSix /\ osol.obj = 36) =>
        /\ ~ofsum.raised
        /\ osol.obj * ofsum.den = ofsum.num

\* The model was built in bandwidth mode.
BuiltBandwidth == obw /\ opc \in {"built", "solving", "solved"}

\* C4 (as claimed): in bandwidth mode the objective is f_max - f_min: f_max has
\* objective coefficient 1, f_min has -1, every other variable has 0, and the
\* objective value of a solution is f_max - f_min.
C4_BandwidthObjectiveIsSpread ==
    BuiltBandwidth =>
        /\ omodel.objc["f_max"] = 1
        /\ omodel.objc["f_min"] = -1
        /\ \A f \in omodel.families \ {"f_max", "f_min"} : omodel.objc[f] = 0
        /\ opc = "solved" => osol.obj = osol.f_max - osol.f_min

\* The catalog gives both players of some pair the same letter against each
\* other: both home, or both away.
CatalogContradictory ==
    \E e \in CatalogEntries(on, ocat) : \E f \in CatalogEntries(on, ocat) :
        /\ e[1] \in PlayerSet(on) /\ e[2] \in PlayerSet(on)
        /\ f[1] = e[2] /\ f[2] = e[1]
        /\ f[3] = e[3]

\* The catalog has at most one string per player.
CatalogWithinPlayers == Len(ocat.val) <= on

CatalogMismatched ==
    /\ ocat.some
    /\ \/ Len(ocat.val) # on
       \/ \E k \in 1..Len(ocat.val) : Len(ocat.val[k]) # on - 1

\* C13 (as claimed): with a catalog whose length does not match the domain,
\* construction fails with an error before any solver interaction: no model
\* is built and the solver is never called.
C13_MismatchedCatalogFailsFast ==
    CatalogMismatched => opc \in {"new", "error"}

(***************************************************************************)
(* Properties of FairSrrProblem                                            *)
(***************************************************************************)
\* The arguments with which the constructor fails.
ConstructionFailsAsClaimed ==
    \/ dn <= 0
    \/ dn % 2 = 1
    \/ /\ dgaps.some
       /\ \/ 2 * Len(dgaps.val) # dn
          \/ SumSeq(dgaps.val) # dn - 1

\* C14: constructing FairSrrProblem fails, leaving no object, whenever
\* n <= 0, n is odd, or a supplied gap sequence has a length other than n/2
\* or a sum other than n - 1; it succeeds for every even n > 0 when no gap
\* sequence is supplied.
C14_ConstructionFailsOnBadArguments ==
    (dpc # "new") =>
        /\ ConstructionFailsAsClaimed => dpc = "failed"
        /\ (dn > 0 /\ dn % 2 = 0 /\ ~dgaps.some) => dpc = "constructed"

\* FairSrrProblem(4, (2, 2)) failed: two gaps, but their sum is not 3.
C14_Witness ==
    /\ dpc = "failed"
    /\ dn = 4
    /\ dgaps = [some |-> TRUE, val |-> <<2, 2>>]

\* A pattern() call has returned.
PatternReturned == dcall.op = "pattern"

\* The base motif by position (from 0): two break letters, the other letter,
\* then break letter and other letter in turn.
MotifLetterAt(break_type, k) ==
    IF k < 2 THEN break_type
    ELSE IF k = 2 THEN Other(break_type)
    ELSE IF (k - 3) % 2 = 0 THEN break_type
    ELSE Other(break_type)

\* The length of the base motif: 3 letters and n - 4 pairs.
MotifLength(n) == 3 + 2 * (IF n > 4 THEN n - 4 ELSE 0)

\* C6 (as amended): pattern((break_round, letter)) is the first n - 1 letters
\* of the base motif (two break letters, one opposite letter, then the pair
\* break letter, opposite letter n - 4 times) rotated to the RIGHT by
\* break_round - 1 positions: letter k of the result is letter
\* k - (break_round - 1) of the motif, counted cyclically.
C6_PatternIsMotifRotatedRight ==
    PatternReturned =>
        LET break_round == dcall.arg[1]
            break_type == dcall.arg[2]
            len == MotifLength(dn)
        IN  /\ Len(dcall.val) = (IF dn - 1 <= len THEN dn - 1 ELSE len)
            /\ \A k \in 0..(Len(dcall.val) - 1) :
                  dcall.val[k + 1] =
                      MotifLetterAt(break_type, (k - (break_round - 1)) % len)

\* pattern((2, 'H')) of the problem with 6 teams and gaps (2, 2, 1) returned AHHAH.
C6_Witness ==
    /\ PatternReturned
    /\ dn = 6
    /\ dgaps = [some |-> TRUE, val |-> <<2, 2, 1>>]
    /\ dcall.arg = <<2, "H">>
    /\ dcall.val = <<"A", "H", "H", "A", "H">>

\* The motif as the claim words it: the pair is opposite letter, break letter.
ClaimedMotif(n, break_type) ==
    LET m == n - 4
    IN  <<break_type, break_type, Other(break_type)>>
            \o Interleave(Repeat(Other(break_type), m), Repeat(break_type, m))

\* s rotated to the left by k positions (to the right when k < 0).
RotatedLeft(s, k) == [i \in 1..Len(s) |-> s[((i - 1 + k) % Len(s)) + 1]]

\* C6 (as claimed): pattern(p) is the first n - 1 letters of the claimed motif
\* rotated to the LEFT by break_round - 1 positions.
C6_PatternIsMotifRotatedLeft ==
    PatternReturned =>
        dcall.val = Prefix(RotatedLeft(ClaimedMotif(dn, dcall.arg[2]), dcall.arg[1] - 1),
                           dn - 1)

\* The positions k >= 1 (from 0) of s whose letter equals the letter before it.
RepeatPositions(s) == {k \in 1..(Len(s) - 1) : s[k + 1] = s[k]}

\* C7: for every even n >= 2 and every pattern (r, L) with 0 <= r <= n - 2,
\* pattern((r, L)) has exactly n - 1 letters, all H or A, and a single break
\* at r: for r >= 1 the only equal adjacent letters are at r - 1 and r and are
\* L; for r = 0 the string starts with L and no adjacent letters are equal.
C7_PatternHasSingleBreak ==
    (PatternReturned /\ 0 <= dcall.arg[1] /\ dcall.arg[1] <= dn - 2) =>
        LET r == dcall.arg[1]
            L == dcall.arg[2]
            s == dcall.val
        IN  /\ Len(s) = dn - 1
            /\ Range(s) \subseteq Letters
            /\ r >= 1 => (RepeatPositions(s) = {r} /\ s[r] = L /\ s[r + 1] = L)
            /\ r = 0 => (RepeatPositions(s) = {} /\ s[1] = L)

\* pattern((5, 'A')) of a problem with 8 teams returned AHAHAAH.
C7_Witness ==
    /\ PatternReturned
    /\ dn = 8
    /\ dcall.arg = <<5, "A">>
    /\ dcall.val = <<"A", "H", "A", "H", "A", "A", "H">>

\* The number of times each element occurs in a list.
BagOfSeq(s) == [x \in Range(s) |-> Cardinality({k \in 1..Len(s) : s[k] = x})]

\* C8: for a problem constructed with break gaps, tight_order_break_patterns()
\* yields exactly n patterns, the first (0, 'H'), whose rounds are break_rounds
\* twice over; each entry of break_rounds is yielded once with H and once
\* with A, so the yielded patterns are the elements of break_patterns, as
\* often as they occur there.
C8_TightOrderIsBreakPatterns ==
    (tpc = "exhausted") =>
        LET br == BreakRounds(dn, dgaps)
            half == dn \div 2
        IN  /\ Len(tyield) = dn
            /\ tyield[1] = <<0, "H">>
            /\ [k \in 1..Len(tyield) |-> tyield[k][1]] = br \o br
            /\ \A k \in 1..half :
                  {tyield[k][2], tyield[k + half][2]} = Letters
            /\ BagOfSeq(tyield) = BagOfSeq(BreakPatterns(dn, dgaps))

\* tight_order_break_patterns() of the problem with 6 teams and gaps (2, 2, 1)
\* yielded (0,H) (2,H) (4,H) (0,A) (2,A) (4,A).
C8_Witness ==
    /\ tpc = "exhausted"
    /\ dn = 6
    /\ dgaps = [some |-> TRUE, val |-> <<2, 2, 1>>]
    /\ tyield = << <<0, "H">>, <<2, "H">>, <<4, "H">>,
                   <<0, "A">>, <<2, "A">>, <<4, "A">> >>

(***************************************************************************)
(* Properties of RankingHap                                                *)
(***************************************************************************)
\* Two f_value() outcomes agree: both raise, or both return the same fraction.
SameFValue(a, b) ==
    /\ a.raised = b.raised
    /\ ~a.raised => a.num * b.den = b.num * a.den

\* C9: for every H/A sequence hap, f_measure_counted_twice, delta_t and
\* f_value give the same result on hap and on hap.complement().
C9_MeasuresInvariantUnderComplement ==
    (hres.done /\ cres.done) =>
        /\ hres.fm = cres.fm
        /\ hres.dt_num * cres.dt_den = cres.dt_num * hres.dt_den
        /\ SameFValue(hres, cres)

\* HHA and its complement AAH were both measured: 3 for each.
C9_Witness ==
    /\ hap = <<"H", "H", "A">>
    /\ hcompl = [some |-> TRUE, hap |-> <<"A", "A", "H">>]
    /\ hres.done /\ hres.fm = 3
    /\ cres.done /\ cres.fm = 3

\* No two adjacent letters of h are equal.
IsAlternating(h) == \A k \in 1..(Len(h) - 1) : h[k] # h[k + 1]

\* The first count decimals of num / den, for 0 <= num < den.
RECURSIVE Decimals(_, _, _)
Decimals(num, den, count) ==
    IF count = 0 THEN <<>>
    ELSE <<(10 * num) \div den>> \o Decimals((10 * num) % den, den, count - 1)

\* The decimals of the documented F-value 0.06593406593406595.
DocumentedFDecimals == <<0, 6, 5, 9, 3, 4, 0, 6, 5, 9, 3, 4, 0, 6, 5, 9, 5>>

\* num / den has the first ten decimals of the documented F-value, so it is
\* within 1e-10 (hence within 1e-9) of it.
NearDocumentedF(num, den) ==
    /\ 0 <= num /\ num < den
    /\ Decimals(num, den, 10) = SubSeq(DocumentedFDecimals, 1, 10)

\* C10 (as amended): for n = 14 the f_value of the perfectly alternating
\* sequence of length 13, and of its complement, is 0
\* (f_measure_counted_twice = 36) and no length-13 sequence has a smaller
\* f_value; 6/91 = 0.06593406593406595 (f_measure_counted_twice = 48) is the
\* smallest f_value of the other length-13 sequences.
C10_AlternatingHasFValueZero ==
    (hres.done /\ Len(hap) = 13) =>
        /\ ~hres.raised
        /\ hres.den > 0
        /\ hres.num >= 0
        /\ IsAlternating(hap) => (hres.fm = 36 /\ hres.num = 0)
        /\ ~IsAlternating(hap) => (hres.fm >= 48 /\ hres.num * 91 >= 6 * hres.den)
        /\ hres.fm = 48 => (hres.num * 91 = 6 * hres.den
                            /\ NearDocumentedF(hres.num, hres.den))

\* HAHAHAHAHAHAH was measured: f_measure_counted_twice 36, f_value 0 / 2184.
C10_Witness ==
    /\ hap = <<"H", "A", "H", "A", "H", "A", "H", "A", "H", "A", "H", "A", "H">>
    /\ hres.done
    /\ hres.fm = 36
    /\ hres.num = 0
    /\ hres.den = 2184

\* C10 (as claimed): for n = 14 the f_value of the perfectly alternating
\* sequence of length 13, and of its complement, is 6/91 = 0.06593406593406595
\* within 1e-9 (f_measure_counted_twice = 48), and no length-13 sequence has
\* a smaller f_value.
C10_AlternatingHasDocumentedF ==
    (hres.done /\ Len(hap) = 13) =>
        /\ ~hres.raised
        /\ IsAlternating(hap) => /\ hres.fm = 48
                                 /\ hres.num * 91 = 6 * hres.den
                                 /\ NearDocumentedF(hres.num, hres.den)
        /\ hres.num * 91 >= 6 * hres.den

(***************************************************************************)
(* Properties of interval_distance                                         *)
(***************************************************************************)
\* C11: for every hap of length >= 2 and its 0/1 list s, the
\* f_measure_counted_twice of hap is exactly 2 * interval_distance(s), and
\* interval_distance(s) equals delta_t.
C11_MeasureIsTwiceIntervalDistance ==
    (hres.done /\ idist.done /\ Len(hap) >= 2) =>
        /\ hres.fm * idist.den = 2 * idist.num
        /\ idist.num * hres.dt_den = hres.dt_num * idist.den

\* Both were taken of HHAHA: interval_distance 8/2 = 4.0, measure 8.
C11_Witness ==
    /\ hap = <<"H", "H", "A", "H", "A">>
    /\ hres.done
    /\ idist.done
    /\ idist.num = 8
    /\ hres.fm = 8

(***************************************************************************)
(* SmallestF (src/optimal-f-value-n-6-10-14/rankingHAP.py)                 *)
(*                                                                         *)
(* build() gives x[i, h] the objective coefficient f_value(h) / n, so the  *)
(* objective orders assignments as the sum of f_measure_counted_twice of   *)
(* the chosen strings does.  The constraint of lines 50-55 fixes the       *)
(* number of chosen strings with the target F-value at 2, so               *)
(* 2 * (measure of a target string) + (n - 2) * (least measure) bounds the *)
(* objective from below.  The solver is external; its search with          *)
(* PoolSearchMode 2 and PoolGap 0 is modelled as a depth-first search,     *)
(* team by team, over the strings that keep a node at this bound, and its  *)
(* pool holds every assignment that attains the bound.  For the inputs     *)
(* used here either no string has the target F-value, and the model is     *)
(* infeasible, or the bound is attained, and the pool is the set of        *)
(* optimal solutions.                                                      *)
(***************************************************************************)
\* m = SmallestF(14)
SearchTeams == 14

SearchInputs == {2, 3, 4, SearchTeams}

\* SmallestF.ranking_haps: itertools.product('HA', repeat=self.n - 1)
SearchRankingHaps(n) == [1..(n - 1) -> Letters]

\* RankingHap(h).f_value() == 0.06593406593406595, for the measures m of h.
\* The floats f_value returns for different measures of strings of one length
\* differ by more than 1e-3, and the float it returns for 6/91 is the literal.
HasTargetFValue(m) == ~m.raised /\ NearDocumentedF(m.num, m.den)

\* Line 30: obj=RankingHap(h).f_value() / self.n raises ZeroDivisionError.
SearchBuildRaises(n) == \E h \in SearchRankingHaps(n) : Measures(h).raised

\* Lines 40-48 for teams i < j and the strings hi, hj chosen for them: hi has
\* H at index j - 1 exactly when hj has A at index i.
PairConsistent(i, hi, j, hj) == (hi[j] = "H") <=> (hj[i + 1] = "A")

\* Every string with its measures.
MeasuredRows(n) == {<<h, Measures(h)>> : h \in SearchRankingHaps(n)}

\* The strings that keep a node at the bound: those of least measure and
\* those with the target F-value.
BoundRows(measured, least) ==
    {[row |-> p[1], target |-> HasTargetFValue(p[2])] :
        p \in {q \in measured : q[2].fm = least \/ HasTargetFValue(q[2])}}

LeastMeasure(measured) == Min({p[2].fm : p \in measured})

\* The order in which the solver tries the strings.
RECURSIVE SeqOfSet(_)
SeqOfSet(S) ==
    IF S = {} THEN <<>>
    ELSE LET x == CHOOSE y \in S : TRUE
         IN  <<x>> \o SeqOfSet(S \ {x})

CandidatesOf(measured) == SeqOfSet(BoundRows(measured, LeastMeasure(measured)))

SearchCandidates(n) == CandidatesOf(MeasuredRows(n))

\* The strings chosen along the path, for teams 0, 1, ...
RowsOf(cand, path) == [k \in 1..Len(path) |-> cand[path[k]].row]

\* The number of strings with the target F-value along the path.
TargetsOf(cand, path) == Cardinality({k \in 1..Len(path) : cand[path[k]].target})

\* Candidate c may be chosen for the next team: lines 40-48 hold against
\* every team of the path, and line 50-55 can still hold.
Admissible(cand, path, c) ==
    /\ \A k \in 1..Len(path) :
          PairConsistent(k - 1, cand[path[k]].row, Len(path), cand[c].row)
    /\ TargetsOf(cand, path) + (IF cand[c].target THEN 1 ELSE 0) <= 2

LeastOrZero(S) == IF S = {} THEN 0 ELSE Min(S)

\* The first admissible candidate after position after, 0 when there is none.
NextChoice(cand, path, after) ==
    LeastOrZero({c \in (after + 1)..Len(cand) : Admissible(cand, path, c)})

\* m = SmallestF(n)
SearchInit ==
    /\ CircleIdle
    /\ DomIdle
    /\ HapIdle
    /\ OptIdle
    /\ sn \in SearchInputs
    /\ spc = "new"
    /\ scand = <<>>
    /\ spath = <<>>
    /\ sdown = FALSE
    /\ spool = {}

\* m.build() runs to the end.
SearchBuild ==
    /\ spc = "new"
    /\ ~SearchBuildRaises(sn)
    /\ spc' = "built"
    /\ UNCHANGED <<searchOthers, sn, scand, spath, sdown, spool>>

\* m.build() raises ZeroDivisionError.
SearchBuildError ==
    /\ spc = "new"
    /\ SearchBuildRaises(sn)
    /\ spc' = "error"
    /\ UNCHANGED <<searchOthers, sn, scand, spath, sdown, spool>>

\* m.optimize(): the solver starts at the root node.
SearchOptimize ==
    /\ spc = "built"
    /\ spc' = "searching"
    /\ scand' = SearchCandidates(sn)
    /\ sdown' = TRUE
    /\ UNCHANGED <<searchOthers, sn, spath, spool>>

\* The solver enters a node: a full assignment with two target strings is put
\* into the pool; otherwise the first admissible string is chosen for the
\* next team.
SolverEnter ==
    /\ spc = "searching"
    /\ sdown
    /\ IF Len(spath) = sn
       THEN /\ spool' = IF TargetsOf(scand, spath) = 2
                        THEN spool \cup {RowsOf(scand, spath)}
                        ELSE spool
            /\ sdown' = FALSE
            /\ spath' = spath
       ELSE /\ spool' = spool
            /\ \E c \in {NextChoice(scand, spath, 0)} :
                  /\ sdown' = (c # 0)
                  /\ spath' = IF c # 0 THEN Append(spath, c) ELSE spath
    /\ UNCHANGED <<searchOthers, sn, spc, scand>>

\* The solver leaves a node: the next admissible string is chosen for its
\* team, or the node of the team before is left.
SolverLeave ==
    /\ spc = "searching"
    /\ ~sdown
    /\ spath # <<>>
    /\ \E prefix \in {SubSeq(spath, 1, Len(spath) - 1)} :
       \E c \in {NextChoice(scand, prefix, spath[Len(spath)])} :
          /\ sdown' = (c # 0)
          /\ spath' = IF c # 0 THEN Append(prefix, c) ELSE prefix
    /\ UNCHANGED <<searchOthers, sn, spc, scand, spool>>

\* The root node is left: the search is over.
SolverStop ==
    /\ spc = "searching"
    /\ ~sdown
    /\ spath = <<>>
    /\ spc' = "done"
    /\ UNCHANGED <<searchOthers, sn, scand, spath, sdown, spool>>

SearchNext ==
    \/ SearchBuild
    \/ SearchBuildError
    \/ SearchOptimize
    \/ SolverEnter
    \/ SolverLeave
    \/ SolverStop

SpecSearch == SearchInit /\ [][SearchNext]_vars

(***************************************************************************)
(* Properties of SmallestF                                                 *)
(***************************************************************************)
\* C15: for n = 14 the set of optimal solutions of the model that
\* SmallestF.build states, which the solver's pool holds when the search is
\* over, contains exactly three assignments.
C15_PoolHasThreeCatalogs ==
    (spc = "done" /\ sn = SearchTeams) => Cardinality(spool) = 3

(***************************************************************************)
(* Properties of the deviation variables of MinRankingFairnessModel        *)
(***************************************************************************)
\* print_ranking_haps ran on a solution of a model built in total mode.
ReportedTotal == opc = "solved" /\ ~obw /\ ofsum.done

\* The intervals (p, i, j) with 0 <= i and i + 2 <= j <= n - 1.
ClaimedIntervals ==
    {<<p, i, j>> : p \in 0..(on - 1), i \in 0..(on - 1), j \in 0..(on - 1)}
        \cap {t \in Int \X Int \X Int : t[2] + 2 <= t[3]}

IsDistinct(s) == \A k, m \in 1..Len(s) : k # m => s[k] # s[m]

\* The list s of numbers is strictly increasing.
IsStrictlyIncreasing(s) == \A k \in 1..(Len(s) - 1) : s[k] < s[k + 1]

\* C17: for every problem constructed with a break-gap sequence, break_rounds
\* yields exactly n/2 strictly increasing rounds, the first 0 and all within
\* 0..n-2, and break_patterns yields exactly n distinct (round, letter) pairs.
C17_BreakRoundsIncreaseAndPatternsDiffer ==
    (dpc = "constructed" /\ dgaps.some) =>
        /\ dcall.op = "break_rounds" =>
              /\ Len(dcall.val) = dn \div 2
              /\ dcall.val[1] = 0
              /\ \A k \in 1..Len(dcall.val) : dcall.val[k] \in 0..(dn - 2)
              /\ IsStrictlyIncreasing(dcall.val)
        /\ dcall.op = "break_patterns" =>
              /\ Len(dcall.val) = dn
              /\ IsDistinct(dcall.val)

====
